---- MODULE Spec2Model ----
(***************************************************************************)
(* Model of functional_rs (src/src/lib.rs): the ComposableFn wrapper with  *)
(* its `>>` composition (f! macro, Fn::call, Shr::shr) and the currying    *)
(* macro c!.  A caller owns NSlots variables; each holds nothing, a        *)
(* ComposableFn, or a curried closure.  Every operation records what it    *)
(* returned and which underlying transformations it called, in order.      *)
(***************************************************************************)
EXTENDS Integers, Sequences, FiniteSets

\* ---- bounds ----
MaxVal == 2        \* integers are 0..MaxVal (a narrow unsigned type)
MaxStages == 3     \* leaf closures held by the caller's variables, in total
NSlots == 2        \* caller variables

Val == 0..MaxVal
Slot == 1..NSlots

\* ---- results of running caller-supplied code ----
Ok(v) == [tag |-> "ok", v |-> v, msg |-> ""]
Panic(m) == [tag |-> "panic", v |-> 0, msg |-> m]
IsPanic(r) == r.tag = "panic"

\* Unary closures handed to f!: the doc example's |x| x + 1 and |x| x * 2
\* (overflow checks on, as in a test build) and a division, |x| MAX / x.
Prims == {"inc", "dbl", "recip"}
PrimApply(n, x) ==
    IF n = "inc"
    THEN IF x + 1 > MaxVal THEN Panic("attempt to add with overflow") ELSE Ok(x + 1)
    ELSE IF n = "dbl"
    THEN IF x * 2 > MaxVal THEN Panic("attempt to multiply with overflow") ELSE Ok(x * 2)
    ELSE IF x = 0 THEN Panic("attempt to divide by zero") ELSE Ok(MaxVal \div x)

\* Multi-argument closures handed to c!: |a, b| a + b (test_add_10_from_str)
\* and a three-argument, order-sensitive body |a, b, c| a.wrapping_sub(b) / c.
Fns == {"add", "subdiv"}
Arity(fn) == IF fn = "add" THEN 2 ELSE 3
Body(fn, args) ==
    IF fn = "add"
    THEN IF args[1] + args[2] > MaxVal
         THEN Panic("attempt to add with overflow")
         ELSE Ok(args[1] + args[2])
    ELSE IF args[3] = 0
         THEN Panic("attempt to divide by zero")
         ELSE Ok(((args[1] - args[2] + MaxVal + 1) % (MaxVal + 1)) \div args[3])

\* ---- values a caller variable can hold ----
Empty == [kind |-> "empty"]
PrimClosure(n) == [kind |-> "prim", name |-> n]
\* the closure c! expands to, after Len(args) arguments were supplied
Curried(fn, args) == [kind |-> "curried", fn |-> fn, args |-> args]
Needs(ch) == Arity(ch.fn) - Len(ch.args)

\* pub struct ComposableFn(pub Box<dyn Fn(T) -> U>)
ComposableFn(box) == [kind |-> "ComposableFn", box |-> box]

\* f!($f) => ComposableFn(Box::new($f)); nothing is called
f(closure) == [val |-> ComposableFn(closure), trace |-> <<>>]

\* c!(|a1, ..., aN| body) => move |a1| ... move |aN| { body }; nothing is called
c(fn) == [val |-> Curried(fn, <<>>), trace |-> <<>>]

\* apply with the new argument bound in front of the captured ones
apply_reversed(ch, arg) ==
    IF Needs(ch) > 1
    THEN [val |-> Curried(ch.fn, <<arg>> \o ch.args), res |-> Ok(0),
          terminal |-> FALSE, trace |-> <<>>]
    ELSE [val |-> Empty, res |-> Body(ch.fn, <<arg>> \o ch.args),
          terminal |-> TRUE,
          trace |-> <<[f |-> ch.fn, x |-> <<arg>> \o ch.args]>>]

\* apply with the body expanded into every closure of the chain, the
\* parameters not yet supplied defaulted to 0
apply_eager(ch, arg) ==
    LET sofar == Append(ch.args, arg)
        padded == [k \in 1..Arity(ch.fn) |-> IF k <= Len(sofar) THEN sofar[k] ELSE 0]
    IN IF Needs(ch) > 1
       THEN [val |-> Curried(ch.fn, sofar), res |-> Body(ch.fn, padded),
             terminal |-> FALSE, trace |-> <<[f |-> ch.fn, x |-> padded]>>]
       ELSE [val |-> Empty, res |-> Body(ch.fn, sofar),
             terminal |-> TRUE, trace |-> <<[f |-> ch.fn, x |-> sofar]>>]

\* apply whose intermediate closures return themselves, the argument lost
apply_stuck(ch, arg) ==
    IF Needs(ch) > 1
    THEN [val |-> Curried(ch.fn, ch.args), res |-> Ok(0),
          terminal |-> FALSE, trace |-> <<>>]
    ELSE [val |-> Empty, res |-> Body(ch.fn, Append(ch.args, arg)),
          terminal |-> TRUE,
          trace |-> <<[f |-> ch.fn, x |-> Append(ch.args, arg)]>>]

\* One application of a curried closure: the outer closures only capture the
\* argument and return the next closure, the innermost one runs the body.
apply(ch, arg) ==
    IF Needs(ch) > 1
    THEN [val |-> Curried(ch.fn, Append(ch.args, arg)), res |-> Ok(0),
          terminal |-> FALSE, trace |-> <<>>]
    ELSE [val |-> Empty, res |-> Body(ch.fn, Append(ch.args, arg)),
          terminal |-> TRUE,
          trace |-> <<[f |-> ch.fn, x |-> Append(ch.args, arg)]>>]

\* Shr::shr: ComposableFn(Box::new(move |x| rhs.0((self.0)(x)))); the new
\* closure owns both operands; nothing is called
ShrClosure(self, rhs) == [kind |-> "shr", self |-> self, rhs |-> rhs]
\* shr with the operands the other way round: move |x| self.0((rhs.0)(x))
shr_swapped(self, rhs) == [val |-> ComposableFn(ShrClosure(rhs, self)), trace |-> <<>>]

\* shr that runs its left operand once while composing
shr_eager(self, rhs) ==
    [val |-> ComposableFn(ShrClosure(self, rhs)),
     trace |-> IF self.box.kind = "prim" THEN <<[f |-> self.box.name, x |-> <<0>>]>>
               ELSE <<[f |-> "shr", x |-> <<0>>]>>]

shr(self, rhs) == [val |-> ComposableFn(ShrClosure(self, rhs)), trace |-> <<>>]

RECURSIVE box_call(_, _)

\* the closure with its left operand run twice: rhs.0((self.0)((self.0)(x)))
shr_closure_twice(self, rhs, x) ==
    LET first == box_call(self.box, x) IN
    IF IsPanic(first.res)
    THEN first
    ELSE LET inner == box_call(self.box, first.res.v) IN
         IF IsPanic(inner.res)
         THEN [res |-> inner.res, trace |-> first.trace \o inner.trace]
         ELSE LET outer == box_call(rhs.box, inner.res.v) IN
              [res |-> outer.res, trace |-> first.trace \o inner.trace \o outer.trace]

\* the closure with a failure of its left operand caught and replaced by the
\* default value: rhs.0(catch_unwind(|| (self.0)(x)).unwrap_or_default())
shr_closure_catch(self, rhs, x) ==
    LET inner == box_call(self.box, x)
        outer == box_call(rhs.box, IF IsPanic(inner.res) THEN 0 ELSE inner.res.v)
    IN [res |-> outer.res, trace |-> inner.trace \o outer.trace]

\* the closure shr builds, move |x: T| rhs.0((self.0)(x)): the argument
\* (self.0)(x) is evaluated first, a panic in it unwinds past the call of rhs.0
shr_closure(self, rhs, x) ==
    LET inner == box_call(self.box, x) IN
    IF IsPanic(inner.res)
    THEN inner
    ELSE LET outer == box_call(rhs.box, inner.res.v) IN
         [res |-> outer.res, trace |-> inner.trace \o outer.trace]

\* calling the Box<dyn Fn(T) -> U> runs the closure it owns: one handed to
\* f!, or the one shr built
box_call(box, x) ==
    IF box.kind = "prim"
    THEN [res |-> PrimApply(box.name, x), trace |-> <<[f |-> box.name, x |-> <<x>>]>>]
    ELSE shr_closure(box.self, box.rhs, x)

\* call that runs the boxed closure twice and returns the second result
call_twice(self, x) ==
    LET r1 == box_call(self.box, x)
        r2 == box_call(self.box, x)
    IN [res |-> r2.res, trace |-> r1.trace \o r2.trace]

\* Fn::call(&self, args): (self.0)(args.0)
call(self, x) == box_call(self.box, x)

\* FnMut::call_mut(&mut self, args): (self.0)(args.0)
call_mut(self, x) == box_call(self.box, x)

\* FnOnce::call_once(self, args): (self.0)(args.0)
call_once(self, x) == box_call(self.box, x)

RECURSIVE Stages(_)
Stages(v) ==
    IF v.kind = "empty" THEN 0
    ELSE IF v.kind = "curried" THEN 1
    ELSE IF v.box.kind = "shr" THEN Stages(v.box.self) + Stages(v.box.rhs)
    ELSE 1

\* slots: the caller's variables; given: the arguments the caller has passed,
\* one application at a time, to obtain the curried closure in a slot;
\* composed: the closures the caller has wrapped and chained with >>, as
\* written left to right, to obtain the wrapper in a slot;
\* last: the last operation: the value it was applied to (on; gv or st, what
\* the caller had given or composed to obtain it), what it returned (val,
\* res) and which caller-supplied closures it called, in order (trace)
VARIABLES slots, given, composed, last
vars == <<slots, given, composed, last>>

RECURSIVE SumStages(_)
SumStages(i) == IF i = 0 THEN 0 ELSE Stages(slots[i]) + SumStages(i - 1)
TotalStages == SumStages(NSlots)

NoOp == [op |-> "none", i |-> 0, j |-> 0, x |-> 0, on |-> Empty, val |-> Empty,
         res |-> Ok(0), terminal |-> FALSE, trace |-> <<>>,
         bx |-> -1, bres |-> Ok(0), gv |-> <<>>, st |-> <<>>]

\* the argument and result of the operation before this one, when that was a
\* call or a final application of the same value in the same variable
BeforeX(i) == IF last.terminal /\ last.i = i /\ last.on = slots[i] THEN last.x ELSE -1
BeforeRes(i) == IF last.terminal /\ last.i = i /\ last.on = slots[i] THEN last.res ELSE Ok(0)

\* a new binding takes the first unused variable
Fresh(i) == slots[i] = Empty /\ \A k \in 1..(i - 1) : slots[k] # Empty

Init ==
    /\ slots = [i \in Slot |-> Empty]
    /\ given = [i \in Slot |-> <<>>]
    /\ composed = [i \in Slot |-> <<>>]
    /\ last = NoOp

\* let w = f!(|x| ...);
Wrap(i, n) ==
    /\ Fresh(i)
    /\ TotalStages < MaxStages
    /\ LET r == f(PrimClosure(n)) IN
       /\ slots' = [slots EXCEPT ![i] = r.val]
       /\ last' = [NoOp EXCEPT !.op = "wrap", !.i = i, !.val = r.val, !.trace = r.trace]
    /\ composed' = [composed EXCEPT ![i] = <<n>>]
    /\ UNCHANGED given

\* let w = a >> b; both operands are moved into the new wrapper
Compose(i, j) ==
    /\ i # j
    /\ slots[i].kind = "ComposableFn"
    /\ slots[j].kind = "ComposableFn"
    /\ LET r == shr(slots[i], slots[j]) IN
       /\ slots' = [slots EXCEPT ![i] = r.val, ![j] = Empty]
       /\ last' = [NoOp EXCEPT !.op = "shr", !.i = i, !.j = j, !.val = r.val,
                               !.st = composed[i] \o composed[j],
                               !.trace = r.trace]
    /\ composed' = [composed EXCEPT ![i] = composed[i] \o composed[j], ![j] = <<>>]
    /\ UNCHANGED given

IsCall(op) == op \in {"call", "call_mut", "call_once"}

\* an invocation that takes the closure out of the wrapper
Invoke_take(i, x) ==
    /\ slots[i].kind = "ComposableFn"
    /\ LET r == call(slots[i], x) IN
       last' = [NoOp EXCEPT !.op = "call", !.i = i, !.x = x, !.on = slots[i],
                            !.res = r.res, !.terminal = TRUE, !.trace = r.trace,
                            !.st = composed[i],
                            !.bx = BeforeX(i), !.bres = BeforeRes(i)]
    /\ slots' = [slots EXCEPT ![i] = Empty]
    /\ composed' = [composed EXCEPT ![i] = <<>>]
    /\ UNCHANGED given

\* w(x) through a shared reference
Invoke(i, x) ==
    /\ slots[i].kind = "ComposableFn"
    /\ LET r == call(slots[i], x) IN
       last' = [NoOp EXCEPT !.op = "call", !.i = i, !.x = x, !.on = slots[i],
                            !.res = r.res, !.terminal = TRUE, !.trace = r.trace,
                            !.st = composed[i],
                            !.bx = BeforeX(i), !.bres = BeforeRes(i)]
    /\ UNCHANGED <<slots, given, composed>>

\* w(x) through a mutable reference
InvokeMut(i, x) ==
    /\ slots[i].kind = "ComposableFn"
    /\ LET r == call_mut(slots[i], x) IN
       last' = [NoOp EXCEPT !.op = "call_mut", !.i = i, !.x = x, !.on = slots[i],
                            !.res = r.res, !.terminal = TRUE, !.trace = r.trace,
                            !.st = composed[i],
                            !.bx = BeforeX(i), !.bres = BeforeRes(i)]
    /\ UNCHANGED <<slots, given, composed>>

\* w(x) by value: the caller gives the wrapper away, it is dropped when the
\* call returns
InvokeOnce(i, x) ==
    /\ slots[i].kind = "ComposableFn"
    /\ LET r == call_once(slots[i], x) IN
       last' = [NoOp EXCEPT !.op = "call_once", !.i = i, !.x = x, !.on = slots[i],
                            !.res = r.res, !.trace = r.trace,
                            !.st = composed[i],
                            !.bx = BeforeX(i), !.bres = BeforeRes(i)]
    /\ slots' = [slots EXCEPT ![i] = Empty]
    /\ composed' = [composed EXCEPT ![i] = <<>>]
    /\ UNCHANGED given

\* let p = c!(|a, b, ...| body);
Curry(i, fn) ==
    /\ Fresh(i)
    /\ TotalStages < MaxStages
    /\ LET r == c(fn) IN
       /\ slots' = [slots EXCEPT ![i] = r.val]
       /\ last' = [NoOp EXCEPT !.op = "curry", !.i = i, !.val = r.val, !.trace = r.trace]
    /\ UNCHANGED <<given, composed>>

\* an application that uses the closure up (FnOnce): the variable is left
\* without a value
Apply_consuming(i, j, a) ==
    /\ slots[i].kind = "curried"
    /\ j = i \/ Fresh(j)
    /\ LET r == apply(slots[i], a) IN
       /\ slots' = IF r.terminal THEN [slots EXCEPT ![i] = Empty]
                   ELSE [[slots EXCEPT ![i] = Empty] EXCEPT ![j] = r.val]
       /\ given' = IF r.terminal THEN given
                   ELSE [given EXCEPT ![j] = Append(given[i], a)]
       /\ last' = [NoOp EXCEPT !.op = "apply", !.i = i,
                               !.j = IF r.terminal THEN i ELSE j, !.x = a,
                               !.on = slots[i], !.val = r.val, !.res = r.res,
                               !.terminal = r.terminal, !.trace = r.trace,
                               !.gv = given[i],
                               !.bx = IF r.terminal THEN BeforeX(i) ELSE -1,
                               !.bres = IF r.terminal THEN BeforeRes(i) ELSE Ok(0)]
    /\ UNCHANGED composed

\* let q = p(a);  or  p(a) as the final application, whose result is used
\* at once; the closures are Fn, so p stays usable
Apply(i, j, a) ==
    /\ slots[i].kind = "curried"
    /\ j = i \/ Fresh(j)
    /\ LET r == apply(slots[i], a) IN
       /\ slots' = IF r.terminal THEN slots ELSE [slots EXCEPT ![j] = r.val]
       /\ given' = IF r.terminal THEN given
                   ELSE [given EXCEPT ![j] = Append(given[i], a)]
       /\ last' = [NoOp EXCEPT !.op = "apply", !.i = i,
                               !.j = IF r.terminal THEN i ELSE j, !.x = a,
                               !.on = slots[i], !.val = r.val, !.res = r.res,
                               !.terminal = r.terminal, !.trace = r.trace,
                               !.gv = given[i],
                               !.bx = IF r.terminal THEN BeforeX(i) ELSE -1,
                               !.bres = IF r.terminal THEN BeforeRes(i) ELSE Ok(0)]
    /\ UNCHANGED composed

\* the variable goes out of scope and its value is dropped
Drop(i) ==
    /\ slots[i] # Empty
    /\ slots' = [slots EXCEPT ![i] = Empty]
    /\ given' = [given EXCEPT ![i] = <<>>]
    /\ composed' = [composed EXCEPT ![i] = <<>>]
    /\ last' = [NoOp EXCEPT !.op = "drop", !.i = i]

\* A caller of the composition half: f!, >>, the three call traits
NextCompose ==
    \/ \E i \in Slot, n \in Prims : Wrap(i, n)
    \/ \E i, j \in Slot : Compose(i, j)
    \/ \E i \in Slot, x \in Val : Invoke(i, x)
    \/ \E i \in Slot, x \in Val : InvokeMut(i, x)
    \/ \E i \in Slot, x \in Val : InvokeOnce(i, x)
    \/ \E i \in Slot : Drop(i)

SpecCompose == Init /\ [][NextCompose]_vars

\* A caller of the currying half: c! and the closures it expands to
NextCurry ==
    \/ \E i \in Slot, fn \in Fns : Curry(i, fn)
    \/ \E i, j \in Slot, a \in Val : Apply(i, j, a)
    \/ \E i \in Slot : Drop(i)

SpecCurry == Init /\ [][NextCurry]_vars

(***************************************************************************)
(* Properties                                                              *)
(***************************************************************************)

\* g applied to the outcome r of an earlier stage; a failure stays as it is
Then(g, r) == IF IsPanic(r) THEN r ELSE PrimApply(g, r.v)

\* names[k..] applied in turn, starting from the outcome r
RECURSIVE RunFrom(_, _, _)
RunFrom(names, k, r) ==
    IF k > Len(names) THEN r ELSE RunFrom(names, k + 1, Then(names[k], r))
Run(names, x) == RunFrom(names, 1, Ok(x))

IsShr(w) == w.kind = "ComposableFn" /\ w.box.kind = "shr"
Called(name, x) == [f |-> name, x |-> <<x>>]

\* C1: invoking f!(f) >> f!(g) on x returns g(f(x)), f applied first and its
\* output handed to g; invoking f!(f) >> f!(g) >> f!(h) on x returns h(g(f(x))).
C1_ComposeOrder ==
    IsCall(last.op) =>
        /\ Len(last.st) = 2 =>
              last.res = Then(last.st[2], PrimApply(last.st[1], last.x))
        /\ Len(last.st) = 3 =>
              last.res = Then(last.st[3], Then(last.st[2], PrimApply(last.st[1], last.x)))

\* f!(f) >> f!(g) was invoked, succeeded, and the other order would have
\* given something else
C1_Witness ==
    /\ IsCall(last.op) /\ Len(last.st) = 2
    /\ ~IsPanic(last.res)
    /\ last.res # Then(last.st[1], PrimApply(last.st[2], last.x))

\* C2: invoking a wrapper built by f!(f) on x calls f exactly once, with x,
\* and returns exactly f(x).
C2_WrapInvoke ==
    (IsCall(last.op) /\ Len(last.st) = 1) =>
        /\ last.res = PrimApply(last.st[1], last.x)
        /\ last.trace = <<Called(last.st[1], last.x)>>

C2_Witness ==
    /\ IsCall(last.op) /\ Len(last.st) = 1
    /\ ~IsPanic(last.res) /\ last.res.v # last.x

\* C3: (a >> b) >> c and a >> (b >> c) are observationally identical on every
\* input: the same calls of the underlying closures in the same order, the
\* same result, the same failure.
C3_Associative ==
    (IsCall(last.op) /\ IsShr(last.on)) =>
        /\ IsShr(last.on.box.self) =>
              LET a == last.on.box.self.box.self
                  b == last.on.box.self.box.rhs
                  cc == last.on.box.rhs
                  other == call(shr(a, shr(b, cc).val).val, last.x)
              IN last.res = other.res /\ last.trace = other.trace
        /\ IsShr(last.on.box.rhs) =>
              LET a == last.on.box.self
                  b == last.on.box.rhs.box.self
                  cc == last.on.box.rhs.box.rhs
                  other == call(shr(shr(a, b).val, cc).val, last.x)
              IN last.res = other.res /\ last.trace = other.trace

\* a right-nested pipeline of three different closures ran to the end
C3_Witness ==
    /\ IsCall(last.op) /\ IsShr(last.on) /\ IsShr(last.on.box.rhs)
    /\ Len(last.trace) = 3 /\ ~IsPanic(last.res)
    /\ Cardinality({last.trace[k].f : k \in 1..3}) = 3

\* C4: supplying the N arguments of an N-ary function one at a time, in
\* declared order, yields what the function yields on the whole argument
\* list: c!(f)(a)(b) = f(a, b), c!(f)(a)(b)(c) = f(a, b, c).
C4_CurryEquivalence ==
    (last.op = "apply" /\ Len(last.gv) + 1 = Arity(last.on.fn)) =>
        /\ last.terminal
        /\ last.res = Body(last.on.fn, Append(last.gv, last.x))

\* a three-argument function was completed with arguments whose order matters
C4_Witness ==
    /\ last.op = "apply" /\ last.terminal /\ last.on.fn = "subdiv"
    /\ ~IsPanic(last.res)
    /\ last.res # Body("subdiv", <<last.x, last.gv[2], last.gv[1]>>)

C6_FailurePropagation ==
    (IsCall(last.op) /\ IsPanic(PrimApply(last.st[1], last.x))) =>
        /\ last.res = PrimApply(last.st[1], last.x)
        /\ last.trace = <<Called(last.st[1], last.x)>>

\* a composed wrapper was invoked on an input its first closure fails on,
\* and its second closure would have accepted the default value
C6_Witness ==
    /\ IsCall(last.op) /\ Len(last.st) >= 2
    /\ IsPanic(PrimApply(last.st[1], last.x))
    /\ ~IsPanic(PrimApply(last.st[2], 0))

\* C7 as stated: f! and >> call nothing, and every invocation of a pipeline
\* of n stages calls each of the n stages exactly once, in composition order.
C7_Original ==
    /\ last.op \in {"wrap", "shr"} => last.trace = <<>>
    /\ IsCall(last.op) =>
          /\ Len(last.trace) = Len(last.st)
          /\ \A k \in 1..Len(last.trace) : last.trace[k].f = last.st[k]

\* C7 amended: f! and >> call nothing; an invocation calls the stages in
\* composition order, each at most once, each on the output of the one before:
\* all n of them when none fails, otherwise the stages up to and including
\* the first one that fails and none after it.
C7_Lazy ==
    /\ last.op \in {"wrap", "shr"} => last.trace = <<>>
    /\ IsCall(last.op) =>
          LET m == Len(last.trace) IN
          /\ m >= 1 /\ m <= Len(last.st)
          /\ \A k \in 1..m :
                /\ last.trace[k].f = last.st[k]
                /\ Ok(last.trace[k].x[1]) = Run(SubSeq(last.st, 1, k - 1), last.x)
          /\ last.res = PrimApply(last.st[m], last.trace[m].x[1])
          /\ m < Len(last.st) => IsPanic(last.res)

\* a three-stage pipeline was built (nothing called) or ran all its stages
C7_Witness ==
    \/ /\ last.op = "shr" /\ Len(last.st) = 3
    \/ /\ IsCall(last.op) /\ Len(last.trace) = 3 /\ ~IsPanic(last.res)

\* C8: c! and every application of fewer than N arguments evaluate nothing
\* and cannot fail; the body is evaluated exactly once, on the full ordered
\* argument list, when the N-th argument is supplied, and the outcome of the
\* application, failure included, is the outcome of the body.
C8_CurryLazy ==
    /\ last.op = "curry" => last.trace = <<>> /\ ~IsPanic(last.res)
    /\ (last.op = "apply" /\ Len(last.gv) + 1 < Arity(last.on.fn)) =>
          last.trace = <<>> /\ ~IsPanic(last.res)
    /\ (last.op = "apply" /\ Len(last.gv) + 1 = Arity(last.on.fn)) =>
          /\ last.trace = <<[f |-> last.on.fn, x |-> Append(last.gv, last.x)]>>
          /\ last.res = Body(last.on.fn, Append(last.gv, last.x))

\* the last argument made the body fail
C8_Witness ==
    /\ last.op = "apply" /\ last.terminal /\ IsPanic(last.res)
    /\ last.on.fn = "subdiv"

\* C9: the chain starts needing N arguments; one application takes a closure
\* needing k >= 1 to one needing k - 1, binding the argument at the next
\* declared position; the body's result comes exactly with the N-th argument,
\* and no closure ever needs 0 or more than N arguments.
C9_ChainStates ==
    /\ last.op = "curry" =>
          last.val.args = <<>> /\ Needs(last.val) = Arity(last.val.fn)
    /\ last.op = "apply" =>
          /\ Needs(last.on) >= 1
          /\ last.terminal <=> Len(last.gv) + 1 = Arity(last.on.fn)
          /\ ~last.terminal =>
                /\ last.val.kind = "curried" /\ last.val.fn = last.on.fn
                /\ Needs(last.val) = Needs(last.on) - 1
                /\ last.val.args = Append(last.on.args, last.x)
                /\ slots[last.j] = last.val
                /\ given[last.j] = last.val.args
    /\ \A i \in Slot :
          slots[i].kind = "curried" =>
              /\ Needs(slots[i]) >= 1 /\ Needs(slots[i]) <= Arity(slots[i].fn)
              /\ slots[i].args = given[i]

\* a three-argument chain went 3 -> 2 -> 1 and was completed
C9_Witness ==
    /\ last.op = "apply" /\ last.terminal
    /\ Arity(last.on.fn) = 3 /\ Len(last.gv) = 2

\* C10: an invocation changes no wrapper: a call through a reference leaves
\* every variable as it was (a call by value gives up the invoked wrapper and
\* leaves every other variable as it was); its result is fixed by the closures
\* the wrapper was built from and the input, whatever was invoked before.
C10_InvokeFrame ==
    [][IsCall(last'.op) =>
          /\ \A k \in Slot : k # last'.i => slots'[k] = slots[k]
          /\ last'.op # "call_once" => slots'[last'.i] = slots[last'.i]
          /\ last'.on = slots[last'.i]
          /\ last'.res = Run(composed[last'.i], last'.x)
          /\ last'.bx = last'.x => last'.bres = last'.res]_vars

\* a wrapper was invoked on one input and then, still in place, on another
C10_Witness ==
    /\ last.op \in {"call", "call_mut"}
    /\ last.bx # -1 /\ last.bx # last.x
    /\ slots[last.i] = last.on

====
